---- MODULE Spec2Model ----
(***************************************************************************)
(* Model of homework.py: a bot that polls the homework-review API and      *)
(* forwards status changes to a Telegram chat.                             *)
(*                                                                         *)
(* The program's texts are Russian; TLA+ strings are ASCII, so every text  *)
(* is written here in Latin transliteration, one distinct string per       *)
(* distinct text of the source.                                            *)
(***************************************************************************)
EXTENDS Integers, Sequences, FiniteSets, TLC

(***************************************************************************)
(* Bounds of the model.                                                    *)
(***************************************************************************)
\* longest `homeworks` list the server returns
MaxHomeworks == 2
\* largest clock reading / `current_date` value
MaxDate == 1
\* the per-run counter of delivery attempts saturates here
MaxRun == 2

(***************************************************************************)
(* Python / JSON values, tagged with their type.                           *)
(***************************************************************************)
JNull == [t |-> "null"]
JStr(s) == [t |-> "str", v |-> s]
JInt(n) == [t |-> "int", v |-> n]
JList(s) == [t |-> "list", v |-> s]
JDict(f) == [t |-> "dict", v |-> f]

\* a local variable that has not been assigned
Unbound == [t |-> "unbound"]

\* marks a key that an enumerated mapping does not have
Absent == [t |-> "absent"]

\* a mapping over two keys, each present unless its value is Absent
Dict2(k1, v1, k2, v2) ==
    LET val(k) == IF k = k1 THEN v1 ELSE v2
        dom == {k \in {k1, k2} : val(k) # Absent}
    IN  JDict([k \in dom |-> val(k)])

\* Python truth value of an object
Truthy(x) ==
    CASE x.t = "null" -> FALSE
      [] x.t = "str" -> x.v # ""
      [] x.t = "int" -> x.v # 0
      [] x.t = "list" -> x.v # <<>>
      [] x.t = "dict" -> DOMAIN x.v # {}

\* dict.get(key, default)
Get(d, key, default) == IF key \in DOMAIN d.v THEN d.v[key] ELSE default

\* outcome of a call: a returned value or a raised exception
Return(x) == [raised |-> FALSE, value |-> x]
Raise(kind, arg) == [raised |-> TRUE, error |-> [kind |-> kind, arg |-> arg]]
NoError == [kind |-> "none", arg |-> ""]

(***************************************************************************)
(* Program constants.                                                      *)
(***************************************************************************)
RETRY_PERIOD == 600

HTTP_OK == 200

\* HOMEWORK_VERDICTS with the texts of two verdicts exchanged
HOMEWORK_VERDICTS_Swapped ==
    [approved |-> "Rabota proverena: u revyuera est zamechaniya.",
     reviewing |-> "Rabota vzyata na proverku revyuerom.",
     rejected |-> "Rabota proverena: revyueru vsyo ponravilos. Ura!"]

HOMEWORK_VERDICTS ==
    [approved |-> "Rabota proverena: revyueru vsyo ponravilos. Ura!",
     reviewing |-> "Rabota vzyata na proverku revyuerom.",
     rejected |-> "Rabota proverena: u revyuera est zamechaniya."]

update_message == "Net obnovlenii statusa domashnei raboty."

(***************************************************************************)
(* Exceptions.                                                             *)
(***************************************************************************)
\* exceptions of the standard library raised in an iteration; all derive
\* from Exception
BuiltinExceptions == {"TypeError", "KeyError", "ValueError", "AttributeError"}

\* the classes of the exceptions module (HTTPError, ApiRequestError); they
\* derive from Exception
CustomExceptions == {"HTTPError", "ApiRequestError"}

\* the classes of telegram.error, all deriving from TelegramError
TelegramErrors == {"TelegramError"}

\* IsException as `except (KeyError, TypeError)` would have it
IsException_Narrow(kind) == kind \in {"KeyError", "TypeError"}

\* `except Exception` in main catches these
IsException(kind) ==
    kind \in BuiltinExceptions \cup CustomExceptions \cup TelegramErrors

\* str(error): a KeyError renders the repr of its argument
StrOfError(e) ==
    IF e.kind = "KeyError" THEN "'" \o e.arg \o "'" ELSE e.arg

(***************************************************************************)
(* The functions of homework.py.                                           *)
(***************************************************************************)
\* check_tokens with any() in place of all()
check_tokens_any(env) ==
    \E name \in {"PRACTICUM_TOKEN", "TELEGRAM_TOKEN", "TELEGRAM_CHAT_ID"} :
        Truthy(env[name])

\* check_tokens(): all([PRACTICUM_TOKEN, TELEGRAM_TOKEN, TELEGRAM_CHAT_ID])
check_tokens(env) ==
    \A name \in {"PRACTICUM_TOKEN", "TELEGRAM_TOKEN", "TELEGRAM_CHAT_ID"} :
        Truthy(env[name])

\* send_message without its try/except
send_message_uncaught(outcome) ==
    IF outcome = "ok" THEN Return("debug") ELSE Raise(outcome, "send failed")

\* send_message(bot, message): `outcome` is what bot.send_message does,
\* "ok" or the class of the exception it raises.  Only TelegramError is
\* caught (and logged); anything else propagates to the caller.
send_message(outcome) ==
    IF outcome = "ok" THEN Return("debug")
    ELSE IF outcome \in TelegramErrors THEN Return("error")
    ELSE Raise(outcome, "send failed")

\* text of the HTTPError raised for a response whose code is not 200
BadStatusText(reply) ==
    "Poluchen kod, otlichnyi ot 200: " \o ToString(reply.status_code)
        \o ". Tekst otveta: " \o reply.text
        \o ", Zagolovok otveta: " \o reply.headers \o ", "

\* get_api_answer(timestamp): `reply` is what requests.get does, a raised
\* RequestException or a response; the decoded body is reply.json, with
\* t = "invalid" when the body is not JSON and .json() raises ValueError
get_api_answer(reply) ==
    IF reply.kind = "RequestException"
    THEN Raise("ApiRequestError",
               "Oshibka pri otpravke zaprosa k api: " \o reply.e)
    ELSE IF ~(reply.status_code = HTTP_OK)
    THEN Raise("HTTPError", BadStatusText(reply))
    ELSE IF reply.json.t = "invalid"
    THEN Raise("ValueError", "Expecting value")
    ELSE Return(reply.json)

\* check_response without the test that `homeworks` is a list
check_response_nolist(resp) ==
    IF ~(resp.t = "dict")
    THEN Raise("TypeError", "Poluchen inoi tip dannyh, otlichnyi ot slovarya.")
    ELSE Return(Get(resp, "homeworks", JNull))

\* check_response(response)
check_response(resp) ==
    IF ~(resp.t = "dict")
    THEN Raise("TypeError", "Poluchen inoi tip dannyh, otlichnyi ot slovarya.")
    ELSE IF ~(Get(resp, "homeworks", JNull).t = "list")
    THEN Raise("TypeError", "Dannye prishli ne v vidu spiska.")
    ELSE Return(Get(resp, "homeworks", JNull))

\* the text parse_status renders for a name and a verdict
StatusText(homework_name, verdict) ==
    "Izmenilsya status proverki raboty \"" \o homework_name \o "\". "
        \o verdict

\* parse_status that renders a status it does not know as it stands
parse_status_lenient(hw) ==
    IF ~(hw.t = "dict")
    THEN Raise("AttributeError", "object has no attribute 'get'")
    ELSE LET homework_name == Get(hw, "homework_name", JNull)
             homework_status == Get(hw, "status", JNull)
         IN  IF ~Truthy(homework_name)
             THEN Raise("KeyError", "Otsutstvuet klyuch nazvaniya domashnei raboty!")
             ELSE IF ~Truthy(homework_status)
             THEN Raise("KeyError", "Ne naiden klyuch statusa domashnei raboty!")
             ELSE IF ~(homework_status.v \in DOMAIN HOMEWORK_VERDICTS)
             THEN Return(StatusText(homework_name.v, homework_status.v))
             ELSE Return(StatusText(homework_name.v,
                                    HOMEWORK_VERDICTS[homework_status.v]))

\* parse_status(homeworks): its argument is one element of the list
parse_status(hw) ==
    IF ~(hw.t = "dict")
    THEN Raise("AttributeError", "object has no attribute 'get'")
    ELSE LET homework_name == Get(hw, "homework_name", JNull)
             homework_status == Get(hw, "status", JNull)
         IN  IF ~Truthy(homework_name)
             THEN Raise("KeyError", "Otsutstvuet klyuch nazvaniya domashnei raboty!")
             ELSE IF ~Truthy(homework_status)
             THEN Raise("KeyError", "Ne naiden klyuch statusa domashnei raboty!")
             ELSE IF ~(homework_status.v \in DOMAIN HOMEWORK_VERDICTS)
             THEN Raise("KeyError", "Poluchen neozhidannyi status domashnei raboty!")
             ELSE Return(StatusText(homework_name.v,
                                    HOMEWORK_VERDICTS[homework_status.v]))

\* the text of an error notification (main, line 151)
FailureText(e) == "Sboi v rabote programmy: " \o StrOfError(e)

(***************************************************************************)
(* What the environment can supply.                                        *)
(***************************************************************************)
\* values of an environment variable: unset, empty, set
TokenValues == {JNull, JStr(""), JStr("token")}

Environments ==
    [{"PRACTICUM_TOKEN", "TELEGRAM_TOKEN", "TELEGRAM_CHAT_ID"} -> TokenValues]

\* readings of time.time() and values of current_date
Dates == 0..MaxDate

\* elements of a `homeworks` list, one or more for every way through
\* parse_status: a name with each status, present or not; no name or an
\* empty one, with and without a status; an element that is not a mapping
NameValues == {Absent, JStr(""), JStr("X")}
StatusValues == {Absent, JStr(""), JStr("approved"), JStr("reviewing"),
                 JStr("rejected"), JStr("unknown")}
Records ==
    {Dict2("homework_name", JStr("X"), "status", s) : s \in StatusValues}
        \cup {Dict2("homework_name", n, "status", s) :
                n \in NameValues \ {JStr("X")},
                s \in {Absent, JStr("approved")}}
        \cup {JStr("junk")}

HomeworkLists ==
    UNION {[1..n -> Records] : n \in 0..MaxHomeworks}

\* decoded bodies: mappings with or without `homeworks` (a list or not)
\* and `current_date`, and bodies that are not mappings
Bodies ==
    {Dict2("homeworks", h, "current_date", d) :
        h \in {Absent, JNull} \cup {JList(l) : l \in HomeworkLists},
        d \in {Absent} \cup {JInt(n) : n \in Dates}}
        \cup {JList(<<>>), JNull}

StatusCodes == {200, 204, 503}

Response(code, body) ==
    [kind |-> "response", status_code |-> code, text |-> "busy",
     headers |-> "{}", json |-> body, e |-> ""]

\* what requests.get can do: fail in transport, answer 200 with any body
\* (JSON or not), answer another code
Replies ==
    {[kind |-> "RequestException", status_code |-> 0, text |-> "",
      headers |-> "", json |-> JNull, e |-> "timed out"]}
        \cup {Response(HTTP_OK, b) : b \in Bodies \cup {[t |-> "invalid"]}}
        \cup {Response(c, b) : c \in StatusCodes \ {HTTP_OK},
                               b \in {[t |-> "invalid"],
                                      Dict2("homeworks", JList(<<>>),
                                            "current_date", JInt(MaxDate))}}

\* what bot.send_message can do: deliver, or raise a TelegramError
DeliveryOutcomes == {"ok"} \cup TelegramErrors

(***************************************************************************)
(* State.                                                                  *)
(***************************************************************************)
VARIABLES
    environ,     \* the three environment variables read at import
    pc,          \* the statement main is at
    timestamp,   \* the cursor: from_date of the next request
    messages,    \* the text main remembers as last sent
    response,    \* the decoded body of this iteration
    homeworks,   \* the list check_response returned
    error,       \* the exception the except block is handling
    pending,     \* an exception no handler caught, on its way out of main
    iter,        \* history of the current iteration
    run          \* history of the run of like iterations that ended last

vars == <<environ, pc, timestamp, messages, response, homeworks, error,
          pending, iter, run>>

\* stands for "no text" in the history
NoMessage == "<none>"

\* history of an iteration that starts with these values, after `slept`
\* seconds of sleep
NewIter(m, ts, slept) ==
    [startMessages |-> m, startTimestamp |-> ts, slept |-> slept,
     from_date |-> Unbound, raisedBy |-> "none", errorText |-> NoMessage,
     derived |-> NoMessage, sends |-> <<>>, logged |-> FALSE]

\* the iteration ran its try block to the end
Succeeded(it) == it.raisedBy = "none" /\ it.derived # NoMessage

\* the run of consecutive iterations with one and the same result (the same
\* derived message, or the same failure text) that the iteration `it`
\* closes or continues, the delivery attempts made in it, and whether a
\* delivery of a derived message failed in it
NextRun(r, it) ==
    LET kind == IF Succeeded(it) THEN "ok" ELSE "error"
        text == IF Succeeded(it) THEN it.derived ELSE it.errorText
        before == IF r.kind = kind /\ r.text = text THEN r.sends ELSE 0
        total == before + Len(it.sends)
        same == r.kind = kind /\ r.text = text
        failed == \/ same /\ r.failed
                  \/ \E i \in DOMAIN it.sends : it.sends[i].outcome # "ok"
    IN  [kind |-> kind, text |-> text,
         sends |-> IF total > MaxRun THEN MaxRun ELSE total,
         failed |-> kind = "ok" /\ failed]

Init ==
    /\ environ \in Environments
    /\ pc = "main"
    /\ timestamp = Unbound
    /\ messages = ""
    /\ response = Unbound
    /\ homeworks = Unbound
    /\ error = NoError
    /\ pending = NoError
    /\ iter = NewIter("", Unbound, 0)
    /\ run = [kind |-> "none", text |-> NoMessage, sends |-> 0,
              failed |-> FALSE]

(***************************************************************************)
(* main.                                                                   *)
(***************************************************************************)
\* an exception e raised by `by` inside the try block: the except clause
\* takes it if it is an Exception, else it leaves main through finally
Throw(e, by) ==
    /\ iter' = [iter EXCEPT !.raisedBy = by, !.errorText = FailureText(e),
                            !.from_date = timestamp]
    /\ IF IsException(e.kind)
       THEN error' = e /\ pc' = "except" /\ UNCHANGED pending
       ELSE pending' = e /\ pc' = "finally" /\ UNCHANGED error

\* lines 129-131: credentials are missing, sys.exit
Abort ==
    /\ pc = "main"
    /\ ~check_tokens(environ)
    /\ pc' = "exit"
    /\ UNCHANGED <<environ, timestamp, messages, response, homeworks, error,
                   pending, iter, run>>

\* lines 129-134: credentials are there, the cursor is the current time
Start ==
    /\ pc = "main"
    /\ check_tokens(environ)
    /\ \E now \in Dates :
        /\ timestamp' = JInt(now)
        /\ messages' = ""
        /\ iter' = NewIter("", JInt(now), 0)
    /\ pc' = "get_api_answer"
    /\ UNCHANGED <<environ, response, homeworks, error, pending, run>>

\* line 137
GetApiAnswer ==
    /\ pc = "get_api_answer"
    /\ \E reply \in Replies :
        LET r == get_api_answer(reply)
        IN  IF r.raised
            THEN Throw(r.error, "get_api_answer") /\ UNCHANGED response
            ELSE /\ response' = r.value
                 /\ iter' = [iter EXCEPT !.from_date = timestamp]
                 /\ pc' = "check_response"
                 /\ UNCHANGED <<error, pending>>
    /\ UNCHANGED <<environ, timestamp, messages, homeworks, run>>

\* AdvanceCursor that falls back to 0 instead of the cursor
AdvanceCursor_Zero(resp, ts) == Get(resp, "current_date", JInt(0))

\* AdvanceCursor as response.get('current_date') would have it
AdvanceCursor_NoDefault(resp, ts) == Get(resp, "current_date", JNull)

\* line 139: response.get('current_date', timestamp)
AdvanceCursor(resp, ts) == Get(resp, "current_date", ts)

\* CheckResponse when line 139 stands behind parse_status: the cursor
\* moves only if the first record parses
CheckResponse_AdvanceLate ==
    /\ pc = "check_response"
    /\ LET r == check_response(response)
       IN  IF r.raised
           THEN Throw(r.error, "check_response")
                    /\ UNCHANGED <<homeworks, timestamp>>
           ELSE /\ homeworks' = r.value
                /\ timestamp' =
                    IF Truthy(r.value) /\ parse_status(r.value.v[1]).raised
                    THEN timestamp
                    ELSE AdvanceCursor(response, timestamp)
                /\ pc' = "parse_status"
                /\ UNCHANGED <<error, pending, iter>>
    /\ UNCHANGED <<environ, messages, response, run>>

\* lines 138-139
CheckResponse ==
    /\ pc = "check_response"
    /\ LET r == check_response(response)
       IN  IF r.raised
           THEN Throw(r.error, "check_response")
                    /\ UNCHANGED <<homeworks, timestamp>>
           ELSE /\ homeworks' = r.value
                /\ timestamp' = AdvanceCursor(response, timestamp)
                /\ pc' = "parse_status"
                /\ UNCHANGED <<error, pending, iter>>
    /\ UNCHANGED <<environ, messages, response, run>>

\* SendIfNew without the comparison with the remembered text
SendIfNew_Always(text, outcome) ==
    LET s == send_message(outcome)
        sent == Append(iter.sends, [text |-> text, outcome |-> outcome])
    IN  /\ messages' = text
        /\ IF s.raised
           THEN Throw(s.error, "send_message")
           ELSE /\ pc' = "finally"
                /\ UNCHANGED <<error, pending>>
        /\ iter' = [(IF s.raised THEN iter' ELSE iter)
                       EXCEPT !.derived = text, !.sends = sent]

\* SendIfNew that remembers the text only once it has been delivered
SendIfNew_AfterSuccess(text, outcome) ==
    IF messages # text
    THEN LET s == send_message(outcome)
             sent == Append(iter.sends, [text |-> text, outcome |-> outcome])
         IN  /\ messages' = IF outcome = "ok" THEN text ELSE messages
             /\ IF s.raised
                THEN Throw(s.error, "send_message")
                ELSE /\ pc' = "finally"
                     /\ UNCHANGED <<error, pending>>
             /\ iter' = [(IF s.raised THEN iter' ELSE iter)
                            EXCEPT !.derived = text, !.sends = sent]
    ELSE /\ iter' = [iter EXCEPT !.derived = text]
         /\ pc' = "finally"
         /\ UNCHANGED <<messages, error, pending>>

\* lines 142-144 and 147-149: send the derived text unless it is the
\* remembered one
SendIfNew(text, outcome) ==
    IF messages # text
    THEN LET s == send_message(outcome)
             sent == Append(iter.sends, [text |-> text, outcome |-> outcome])
         IN  /\ messages' = text
             /\ IF s.raised
                THEN Throw(s.error, "send_message")
                ELSE /\ pc' = "finally"
                     /\ UNCHANGED <<error, pending>>
             /\ iter' = [(IF s.raised THEN iter' ELSE iter)
                            EXCEPT !.derived = text, !.sends = sent]
    ELSE /\ iter' = [iter EXCEPT !.derived = text]
         /\ pc' = "finally"
         /\ UNCHANGED <<messages, error, pending>>

\* lines 140-149
Derive ==
    /\ pc = "parse_status"
    /\ \E outcome \in DeliveryOutcomes :
        IF Truthy(homeworks)
        THEN LET r == parse_status(homeworks.v[1])
             IN  IF r.raised
                 THEN Throw(r.error, "parse_status") /\ UNCHANGED messages
                 ELSE SendIfNew(r.value, outcome)
        ELSE SendIfNew(update_message, outcome)
    /\ UNCHANGED <<environ, timestamp, response, homeworks, run>>

\* HandleError when the sleep ends the try block instead of standing in a
\* finally clause: the error path polls again at once
HandleError_NoSleep ==
    /\ pc = "except"
    /\ \E outcome \in DeliveryOutcomes :
        LET message == FailureText(error)
        IN  IF messages = message
            THEN /\ iter' = [iter EXCEPT !.logged = TRUE]
                 /\ UNCHANGED <<messages, pending>>
            ELSE LET s == send_message(outcome)
                 IN  /\ iter' = [iter EXCEPT !.sends =
                            Append(@, [text |-> message, outcome |-> outcome])]
                     /\ IF s.raised
                        THEN messages' = message /\ pending' = s.error
                        ELSE messages' = "" /\ UNCHANGED pending
    /\ error' = NoError
    /\ pc' = "get_api_answer"
    /\ UNCHANGED <<environ, timestamp, response, homeworks, run>>

\* HandleError without line 157: the failure text stays in `messages`
HandleError_NoReset ==
    /\ pc = "except"
    /\ \E outcome \in DeliveryOutcomes :
        LET message == FailureText(error)
        IN  IF messages = message
            THEN /\ iter' = [iter EXCEPT !.logged = TRUE]
                 /\ UNCHANGED <<messages, pending>>
            ELSE LET s == send_message(outcome)
                 IN  /\ iter' = [iter EXCEPT !.sends =
                            Append(@, [text |-> message, outcome |-> outcome])]
                     /\ IF s.raised
                        THEN messages' = message /\ pending' = s.error
                        ELSE messages' = message /\ UNCHANGED pending
    /\ error' = NoError
    /\ pc' = "finally"
    /\ UNCHANGED <<environ, timestamp, response, homeworks, run>>

\* HandleError that clears `messages` only after a delivery that succeeded
HandleError_KeepOnFail ==
    /\ pc = "except"
    /\ \E outcome \in DeliveryOutcomes :
        LET message == FailureText(error)
        IN  IF messages = message
            THEN /\ iter' = [iter EXCEPT !.logged = TRUE]
                 /\ UNCHANGED <<messages, pending>>
            ELSE LET s == send_message(outcome)
                 IN  /\ iter' = [iter EXCEPT !.sends =
                            Append(@, [text |-> message, outcome |-> outcome])]
                     /\ IF s.raised
                        THEN messages' = message /\ pending' = s.error
                        ELSE /\ messages' = IF outcome = "ok" THEN "" ELSE message
                             /\ UNCHANGED pending
    /\ error' = NoError
    /\ pc' = "finally"
    /\ UNCHANGED <<environ, timestamp, response, homeworks, run>>

\* HandleError that puts back the text `messages` held before the failure
HandleError_KeepLast ==
    /\ pc = "except"
    /\ \E outcome \in DeliveryOutcomes :
        LET message == FailureText(error)
        IN  IF messages = message
            THEN /\ iter' = [iter EXCEPT !.logged = TRUE]
                 /\ UNCHANGED <<messages, pending>>
            ELSE LET s == send_message(outcome)
                 IN  /\ iter' = [iter EXCEPT !.sends =
                            Append(@, [text |-> message, outcome |-> outcome])]
                     /\ IF s.raised
                        THEN messages' = message /\ pending' = s.error
                        ELSE UNCHANGED <<messages, pending>>
    /\ error' = NoError
    /\ pc' = "finally"
    /\ UNCHANGED <<environ, timestamp, response, homeworks, run>>

\* lines 150-157
HandleError ==
    /\ pc = "except"
    /\ \E outcome \in DeliveryOutcomes :
        LET message == FailureText(error)
        IN  IF messages = message
            THEN /\ iter' = [iter EXCEPT !.logged = TRUE]
                 /\ UNCHANGED <<messages, pending>>
            ELSE LET s == send_message(outcome)
                 IN  /\ iter' = [iter EXCEPT !.sends =
                            Append(@, [text |-> message, outcome |-> outcome])]
                     /\ IF s.raised
                        THEN messages' = message /\ pending' = s.error
                        ELSE messages' = "" /\ UNCHANGED pending
    /\ error' = NoError
    /\ pc' = "finally"
    /\ UNCHANGED <<environ, timestamp, response, homeworks, run>>

\* lines 158-159 and back to 135: sleep, then either the next iteration or,
\* with an exception pending, out of main; the locals of the iteration are
\* forgotten, the next iteration assigns them before it reads them
Sleep ==
    /\ pc = "finally"
    /\ run' = NextRun(run, iter)
    /\ IF pending # NoError
       THEN pc' = "crashed" /\ UNCHANGED <<iter, response, homeworks>>
       ELSE /\ pc' = "get_api_answer"
            /\ iter' = NewIter(messages, timestamp, RETRY_PERIOD)
            /\ response' = Unbound
            /\ homeworks' = Unbound
    /\ UNCHANGED <<environ, timestamp, messages, error, pending>>

Next ==
    \/ Abort
    \/ Start
    \/ GetApiAnswer
    \/ CheckResponse
    \/ Derive
    \/ HandleError
    \/ Sleep

Spec == Init /\ [][Next]_vars

(***************************************************************************)
(* Vocabulary of the properties.                                           *)
(***************************************************************************)
\* main has passed the startup gate
Started == pc \notin {"main", "exit"}

\* the statements of one iteration, the sleep excluded
InIteration ==
    pc \in {"get_api_answer", "check_response", "parse_status", "except"}

\* this iteration's fetch returned a body and check_response accepted it
CallSucceeded ==
    iter.raisedBy \notin {"get_api_answer", "check_response"}

\* some delivery of this iteration failed
DeliveryFailed ==
    \E i \in DOMAIN iter.sends : iter.sends[i].outcome # "ok"

\* steps from a statement to the next poll, at most
Rank(p) ==
    CASE p = "get_api_answer" -> 5
      [] p = "check_response" -> 4
      [] p = "parse_status" -> 3
      [] p = "except" -> 2
      [] p = "finally" -> 1
      [] OTHER -> 6

\* the three statuses a record may carry
KnownStatuses == {"approved", "reviewing", "rejected"}

\* the record lacks a key or carries a status outside the three
Malformed(hw) ==
    /\ hw.t = "dict"
    /\ \/ "homework_name" \notin DOMAIN hw.v
       \/ "status" \notin DOMAIN hw.v
       \/ hw.v["status"] \notin {JStr(st) : st \in KnownStatuses}

\* the record has a non-empty name and one of the three statuses
WellFormed(hw) ==
    /\ hw.t = "dict"
    /\ DOMAIN hw.v = {"homework_name", "status"}
    /\ hw.v["homework_name"].t = "str"
    /\ hw.v["homework_name"].v # ""
    /\ hw.v["status"] \in {JStr(st) : st \in KnownStatuses}

\* the text the documentation gives for a status
VerdictOf(st) ==
    CASE st = "approved" -> "Rabota proverena: revyueru vsyo ponravilos. Ura!"
      [] st = "reviewing" -> "Rabota vzyata na proverku revyuerom."
      [] st = "rejected" -> "Rabota proverena: u revyuera est zamechaniya."

\* every status-change text over the names and texts of the model
StatusTexts ==
    {"Izmenilsya status proverki raboty \"" \o n \o "\". " \o VerdictOf(st) :
        n \in {"", "X"}, st \in KnownStatuses}

\* the body is not a mapping, or has no `homeworks`, or that is no list
BadShape(body) ==
    \/ body.t # "dict"
    \/ "homeworks" \notin DOMAIN body.v
    \/ body.v["homeworks"].t # "list"

\* the list of a well-shaped body is non-empty
FirstRecord == homeworks.v[1]

HasRecord == homeworks.t = "list" /\ homeworks.v # <<>>

(***************************************************************************)
(* Properties.                                                             *)
(***************************************************************************)

\* C1: in an iteration whose fetch, validation and derivation succeed, a
\* delivery is attempted if and only if the derived message differs from
\* `messages` at the start of the iteration, what is sent is the derived
\* message, `messages` equals it afterwards, and over the run of consecutive
\* successful iterations that derive this message exactly one delivery of
\* it is attempted.
C1_Deduplication ==
    (pc = "finally" /\ Succeeded(iter)) =>
        /\ (iter.sends # <<>>) <=> (iter.derived # iter.startMessages)
        /\ Len(iter.sends) <= 1
        /\ \A i \in DOMAIN iter.sends : iter.sends[i].text = iter.derived
        /\ messages = iter.derived
        /\ NextRun(run, iter).sends = 1

\* C1 witness: a second consecutive iteration with an empty list ends
\* without a delivery
C1_Witness ==
    /\ pc = "finally"
    /\ Succeeded(iter)
    /\ iter.derived = update_message
    /\ run.kind = "ok"
    /\ run.text = update_message
    /\ iter.sends = <<>>

\* C2: when an iteration fails with the failure text of the iteration
\* before it, no error notification is sent and the failure is only logged.
C2_RateLimited ==
    (/\ pc = "finally"
     /\ ~Succeeded(iter)
     /\ run.kind = "error"
     /\ run.text = iter.errorText) =>
        (iter.sends = <<>> /\ iter.logged)

\* C3: after startup no exception leaves main, every state has a next
\* step, a failure of fetch, validation or derivation is in the except
\* block or past it, and every step leads towards the next poll: from any
\* statement the poll is at most five steps away, through the sleep.
C3_Recovers ==
    /\ [](Started =>
            /\ pc # "crashed"
            /\ pending = NoError
            /\ ENABLED Next
            /\ (iter.raisedBy # "none" => pc \in {"except", "finally"}))
    /\ [][Started =>
            \/ (pc = "finally" /\ pc' = "get_api_answer")
            \/ (pc # "finally" /\ Rank(pc') < Rank(pc))]_vars

\* C3 witness: the poll after an iteration that got a 503
C3_Witness ==
    /\ pc = "get_api_answer"
    /\ run.kind = "error"
    /\ run.text = FailureText(
           get_api_answer(Response(503, [t |-> "invalid"])).error)

\* C4: the first cursor is a clock reading; at the end of an iteration the
\* cursor is the body's current_date if the call succeeded and the body has
\* one, and the cursor the iteration started with otherwise.
C4_CursorRule ==
    /\ (Started /\ run.kind = "none") =>
            iter.startTimestamp \in {JInt(n) : n \in Dates}
    /\ pc = "finally" =>
            timestamp =
                IF ~CallSucceeded THEN iter.startTimestamp
                ELSE IF "current_date" \in DOMAIN response.v
                     THEN response.v["current_date"]
                     ELSE iter.startTimestamp

\* C4 witness: a successful call moved the cursor to current_date
C4_Witness ==
    /\ pc = "finally"
    /\ CallSucceeded
    /\ "current_date" \in DOMAIN response.v
    /\ timestamp = response.v["current_date"]
    /\ timestamp # iter.startTimestamp

\* C5: a poll starts only at startup or out of a sleep of RETRY_PERIOD,
\* the sleep is always followed by a poll, and every statement of an
\* iteration is followed by another statement of it or by the sleep.
C5_Pacing ==
    [][/\ (pc' = "get_api_answer") =>
            \/ pc = "main"
            \/ (pc = "finally" /\ iter'.slept = RETRY_PERIOD)
       /\ (pc = "finally") => (pc' = "get_api_answer")
       /\ InIteration =>
            pc' \in {"check_response", "parse_status", "except", "finally"}
      ]_vars

\* C5 witness: a poll that follows the sleep after a successful iteration
C5_Witness ==
    /\ pc = "get_api_answer"
    /\ iter.slept = RETRY_PERIOD
    /\ run.kind = "ok"

\* C6: check_tokens is true exactly when the three credentials are
\* non-empty strings; when one is not, main never gets past startup, no
\* request is made and no delivery attempted; main exits only then.
C6_StartupGate ==
    LET allSet == \A name \in DOMAIN environ :
                      environ[name].t = "str" /\ environ[name].v # ""
    IN  /\ check_tokens(environ) <=> allSet
        /\ ~allSet =>
            /\ ~Started
            /\ iter.from_date = Unbound
            /\ iter.sends = <<>>
            /\ run.kind = "none"
        /\ (pc = "exit") => ~allSet

\* C6 witness: main has exited because the chat id is empty
C6_Witness ==
    /\ pc = "exit"
    /\ environ["PRACTICUM_TOKEN"] = JStr("token")
    /\ environ["TELEGRAM_TOKEN"] = JStr("token")
    /\ environ["TELEGRAM_CHAT_ID"] = JStr("")

\* C7: when the first record lacks homework_name or status or carries a
\* status outside the three, parse_status raises, nothing is derived, no
\* status-change text is sent, and `messages` is no status-change text at
\* the end of the iteration.
C7_MalformedRecord ==
    (pc = "finally" /\ HasRecord /\ Malformed(FirstRecord)) =>
        /\ iter.raisedBy = "parse_status"
        /\ iter.derived = NoMessage
        /\ \A i \in DOMAIN iter.sends : iter.sends[i].text \notin StatusTexts
        /\ messages \notin StatusTexts

\* C7 witness: a record with status "unknown" ended in an error notification
C7_Witness ==
    /\ pc = "finally"
    /\ HasRecord
    /\ FirstRecord = Dict2("homework_name", JStr("X"), "status", JStr("unknown"))
    /\ iter.raisedBy = "parse_status"
    /\ Len(iter.sends) = 1

\* C8: when a delivery fails, main is at the sleep with no exception
\* pending, send_message has raised nothing, and the failed delivery is the
\* only one of the iteration (no notification about it follows).
C8_DeliveryFailure ==
    DeliveryFailed =>
        /\ pc = "finally"
        /\ pending = NoError
        /\ error = NoError
        /\ iter.raisedBy # "send_message"
        /\ Len(iter.sends) = 1
        /\ ENABLED Sleep

\* C8 witness: the delivery of a derived message failed
C8_Witness ==
    /\ pc = "finally"
    /\ Succeeded(iter)
    /\ DeliveryFailed

\* C9: for a first record with a non-empty name N and a status S of the
\* three, parse_status returns the prefix, N in quotes, a full stop, a
\* space and the text of S, and that is the message of the iteration,
\* whatever follows the first record.
C9_Derivation ==
    (pc = "finally" /\ HasRecord /\ WellFormed(FirstRecord)) =>
        LET expected ==
                "Izmenilsya status proverki raboty \""
                    \o FirstRecord.v["homework_name"].v \o "\". "
                    \o VerdictOf(FirstRecord.v["status"].v)
        IN  /\ parse_status(FirstRecord) = Return(expected)
            /\ iter.derived = expected
            /\ iter.raisedBy = "none"

\* C9 witness: an approved record "X" followed by a different record
C9_Witness ==
    /\ pc = "finally"
    /\ HasRecord
    /\ Len(homeworks.v) >= 2
    /\ FirstRecord = Dict2("homework_name", JStr("X"), "status", JStr("approved"))
    /\ homeworks.v[2] # FirstRecord
    /\ iter.derived =
        "Izmenilsya status proverki raboty \"X\". Rabota proverena: revyueru vsyo ponravilos. Ura!"

\* C10: check_response raises exactly when the body is not a mapping or
\* its `homeworks` is missing or not a list; a body with an empty list is
\* accepted and the iteration derives the no-update message.
C10_ShapeValidation ==
    (pc \in {"parse_status", "except", "finally"}
        /\ iter.raisedBy # "get_api_answer") =>
        /\ (iter.raisedBy = "check_response") <=> BadShape(response)
        /\ (pc = "finally" /\ ~BadShape(response)
                /\ response.v["homeworks"] = JList(<<>>)) =>
            (iter.raisedBy = "none" /\ iter.derived = update_message)

\* C10 witness: a body with an empty list gave the no-update message
C10_Witness ==
    /\ pc = "finally"
    /\ iter.raisedBy = "none"
    /\ response.t = "dict"
    /\ "homeworks" \in DOMAIN response.v
    /\ response.v["homeworks"] = JList(<<>>)
    /\ iter.derived = update_message

\* C11: at the end of an iteration whose error path attempted to send an
\* error notification, delivered or not, `messages` is the empty string.
C11_ResetAfterError ==
    (/\ pc = "finally"
     /\ iter.raisedBy # "none"
     /\ \E i \in DOMAIN iter.sends : iter.sends[i].text = iter.errorText) =>
        messages = ""

\* C11 witness: the error notification could not be delivered and
\* `messages` is empty all the same
C11_Witness ==
    /\ pc = "finally"
    /\ iter.raisedBy = "check_response"
    /\ iter.sends = <<[text |-> iter.errorText, outcome |-> "TelegramError"]>>
    /\ messages = ""

\* the body under validation carries a current_date
ServesDate ==
    /\ pc = "check_response"
    /\ ~BadShape(response)
    /\ "current_date" \in DOMAIN response.v

\* C12 as claimed: whatever the server answers, the cursor never becomes
\* smaller.
C12_Monotone ==
    [][(timestamp.t = "int" /\ timestamp'.t = "int") =>
            timestamp'.v >= timestamp.v]_vars

\* C12 as amended: the cursor never becomes smaller in a step in which the
\* server does not supply a current_date below it; it changes only by
\* taking the current_date of an accepted body.
C12_MonotoneUnlessServed ==
    [][Started =>
        /\ (ServesDate => timestamp' = response.v["current_date"])
        /\ (~ServesDate => timestamp' = timestamp)
        /\ (~(ServesDate /\ response.v["current_date"].v < timestamp.v)) =>
                timestamp'.v >= timestamp.v]_vars

\* C12 witness: an accepted body moved the cursor forward, and the next
\* poll will ask from the later date
C12_Witness ==
    /\ pc = "finally"
    /\ CallSucceeded
    /\ iter.from_date = iter.startTimestamp
    /\ timestamp.v > iter.from_date.v

\* the texts `messages` can hold when an iteration starts
RestingTexts == {"", update_message} \cup StatusTexts

\* C14: when an iteration starts, `messages` is empty, the no-update text
\* or a status-change text; in the except block it never equals the failure
\* text, so an iteration that takes the error path never only logs: it
\* attempts one error notification.
C14_ErrorAlwaysNotified ==
    /\ (pc = "get_api_answer") => (messages \in RestingTexts)
    /\ Started => (iter.startMessages \in RestingTexts)
    /\ (pc = "except") => (messages # FailureText(error))
    /\ (pc = "finally" /\ iter.raisedBy # "none") =>
            /\ ~iter.logged
            /\ Len(iter.sends) = 1
            /\ iter.sends[1].text = iter.errorText

\* C14 witness: the failure of the iteration before repeats and is
\* notified again
C14_Witness ==
    /\ pc = "finally"
    /\ iter.raisedBy = "get_api_answer"
    /\ run.kind = "error"
    /\ run.text = iter.errorText
    /\ Len(iter.sends) = 1
    /\ ~iter.logged

\* parse_status raised in this iteration on a body that has a current_date
ParseFailedWithDate ==
    /\ iter.raisedBy = "parse_status"
    /\ "current_date" \in DOMAIN response.v

\* C15: when parse_status raises on a body that carries current_date, the
\* cursor is already that current_date in the except block and at the end
\* of the iteration, and the next poll starts from it and sends it as
\* from_date.
C15_CursorAdvancedBeforeParse ==
    /\ []((pc \in {"except", "finally"} /\ ParseFailedWithDate) =>
            timestamp = response.v["current_date"])
    /\ [][/\ (pc = "finally" /\ ParseFailedWithDate) =>
                /\ pc' = "get_api_answer"
                /\ iter'.startTimestamp = response.v["current_date"]
          /\ (pc = "get_api_answer") =>
                iter'.from_date = iter.startTimestamp]_vars

\* C15 witness: a malformed record came with a current_date other than the
\* cursor, and the cursor has moved to it
C15_Witness ==
    /\ pc = "finally"
    /\ ParseFailedWithDate
    /\ iter.startTimestamp = JInt(0)
    /\ timestamp = JInt(MaxDate)

\* this iteration succeeded with the message of the run before it, whose
\* delivery had failed
RepeatsFailedMessage ==
    /\ pc = "finally"
    /\ Succeeded(iter)
    /\ run.kind = "ok"
    /\ run.text = iter.derived
    /\ run.failed

\* C16: after a failed delivery of a derived message m, `messages` is m;
\* a following successful iteration of the same run that derives m attempts
\* no delivery and leaves `messages` at m.
C16_FailedNotRetried ==
    /\ (pc = "finally" /\ Succeeded(iter) /\ DeliveryFailed) =>
            messages = iter.derived
    /\ RepeatsFailedMessage =>
            (iter.sends = <<>> /\ messages = iter.derived)

\* C16 witness: the status-change text whose delivery failed is derived
\* again and not sent
C16_Witness ==
    /\ RepeatsFailedMessage
    /\ iter.derived \in StatusTexts
    /\ iter.sends = <<>>
    /\ run.sends = 1

\* this iteration succeeded right after an iteration that sent an error
\* notification
FirstSuccessAfterError ==
    /\ pc = "finally"
    /\ Succeeded(iter)
    /\ run.kind = "error"
    /\ run.sends > 0

\* C17: the first successful iteration after an iteration that sent an
\* error notification starts with `messages` empty and attempts exactly one
\* delivery, of its derived message, whatever was sent before the error.
C17_NoDedupAcrossError ==
    FirstSuccessAfterError =>
        /\ iter.startMessages = ""
        /\ Len(iter.sends) = 1
        /\ iter.sends[1].text = iter.derived
        /\ messages = iter.derived

\* C17 witness: the no-update text is sent right after an error
\* notification
C17_Witness ==
    /\ FirstSuccessAfterError
    /\ iter.derived = update_message
    /\ iter.sends = <<[text |-> update_message, outcome |-> "ok"]>>

====
